---- MODULE Spec2Model ----
(***************************************************************************)
(* The bounded same-host crawler scrape_public_site of                     *)
(* src/sales_tool_creator.py (lines 42-84) as a state machine, and the     *)
(* script runs of the Streamlit page that calls it (lines 150-245).        *)
(*                                                                         *)
(* A URL string is a record of the components urlparse splits it into.     *)
(* A Python str is a sequence of one-character strings.  The web is the    *)
(* environment: each requests.get draws its response when it is made.      *)
(***************************************************************************)
EXTENDS Integers, Sequences, FiniteSets, TLC

\* ------------------------------------------------------------------ bounds
\* largest max_pages argument explored besides the program's default
MaxPages == 4
\* anchors (<a href>) the site serves over one crawl, all pages together
MaxAnchors == 3
\* a character cap small enough for the model's page texts to exceed
MaxChars == 4
\* script runs of one browser session, the first page load included
MaxReruns == 6

\* ------------------------------------------------------- program constants
MAX_SITE_PAGES == 10
MAX_SITE_CHARS == 5000

\* ------------------------------------------------------------ URL strings
Url(scheme, netloc, path, frag) ==
    [scheme |-> scheme, netloc |-> netloc, path |-> path, frag |-> frag]

\* "https://example.com/", the seed of the spec's scenarios
RootUrl == Url("https", "example.com", "/", "")
\* "example.com": no scheme, so urlparse finds no netloc either
NoSchemeUrl == Url("", "", "example.com", "")
\* "https://[": urlsplit raises ValueError("Invalid IPv6 URL")
BadUrl == Url("https", "[", "", "")

RootUrls == {RootUrl, NoSchemeUrl, BadUrl}

\* urlparse(u) raises ValueError on an unbalanced bracket in the netloc
UrlparseRaises(u) == u.netloc = "["

\* urlparse(u).netloc
Netloc(u) == u.netloc

\* The href attribute values the site's anchors carry.
HrefAbout    == [kind |-> "path", path |-> "/about"]                 \* "/about"
HrefTop      == [kind |-> "frag", frag |-> "top"]                    \* "#top"
HrefExternal == [kind |-> "abs", url |-> Url("https", "external.com", "/", "")]
HrefBad      == [kind |-> "abs", url |-> BadUrl]                     \* "https://["

Hrefs == {HrefAbout, HrefTop, HrefExternal, HrefBad}

\* urljoin(base, href) parses both arguments and so raises where urlparse does
UrljoinRaises(base, href) ==
    \/ UrlparseRaises(base)
    \/ href.kind = "abs" /\ UrlparseRaises(href.url)

\* urljoin(base, href): an absolute href replaces the base, an absolute path
\* keeps scheme and host and drops the fragment, a fragment-only href keeps
\* everything of the base but its fragment.
urljoin(base, href) ==
    CASE href.kind = "abs"  -> href.url
      [] href.kind = "path" -> Url(base.scheme, base.netloc, href.path, "")
      [] href.kind = "frag" -> Url(base.scheme, base.netloc, base.path, href.frag)

\* ---------------------------------------------------------------- strings
RECURSIVE LStrip(_)
LStrip(s) == IF s # <<>> /\ Head(s) = " " THEN LStrip(Tail(s)) ELSE s

RECURSIVE RStrip(_)
RStrip(s) ==
    IF s # <<>> /\ s[Len(s)] = " " THEN RStrip(SubSeq(s, 1, Len(s) - 1)) ELSE s

\* str.strip()
Strip(s) == LStrip(RStrip(s))

\* sep.join(parts)
RECURSIVE Join(_, _)
Join(sep, parts) ==
    IF parts = <<>> THEN <<>>
    ELSE IF Len(parts) = 1 THEN parts[1]
    ELSE parts[1] \o sep \o Join(sep, Tail(parts))

\* s[:n + 1]: an off-by-one cap
SliceOneMore(s, n) == SubSeq(s, 1, IF Len(s) < n + 1 THEN Len(s) ELSE n + 1)

\* s[:n] for n >= 0
Slice(s, n) == SubSeq(s, 1, IF Len(s) < n THEN Len(s) ELSE n)

\* the separator " \n" of the return statement
Separator == <<" ", "\n">>

\* ------------------------------------------------------------- HTML bodies
\* A body is the sequence of its text nodes, each under a tag, and the
\* sequence of the href values of its anchors, in document order.
Node(tag, s) == [tag |-> tag, s |-> s]

NodeLists ==
    { << Node("script", <<"x">>), Node("p", <<" ", "a">>) >>,
      << Node("p", <<"b">>), Node("a", <<"c", " ">>) >> }

\* soup(["script", "style", "noscript"]) ... s.extract()
Extracted(nodes) ==
    SelectSeq(nodes, LAMBDA n : n.tag \notin {"script", "style", "noscript"})

\* soup.stripped_strings: the stripped strings that are not empty
StrippedStrings(nodes) ==
    LET strs == [i \in 1..Len(nodes) |-> Strip(nodes[i].s)]
    IN  SelectSeq(strs, LAMBDA t : t # <<>>)

\* page_text = " ".join(t.strip() for t in soup.stripped_strings)
PageText(nodes) ==
    LET ss == StrippedStrings(Extracted(nodes))
    IN  Join(<<" ">>, [i \in 1..Len(ss) |-> Strip(ss[i])])

\* every sequence over S of length at most n
SeqsUpTo(S, n) == UNION {[1..k -> S] : k \in 0..n}

\* ---------------------------------------------------------------- responses
\* What requests.get(url, timeout=6) can produce: an exception, or a response
\* with a status, a Content-Type header ("" stands for a missing header) and
\* a body.  parses = FALSE is a body BeautifulSoup rejects with an exception.
Statuses == {200, 304, 404}
ContentTypes == {"text/html; charset=utf-8", "application/json", ""}

NoBody == [parses |-> TRUE, nodes |-> <<>>, hrefs |-> <<>>]

Bodies(n) ==
    {[parses |-> TRUE, nodes |-> ns, hrefs |-> hs] :
        ns \in NodeLists, hs \in SeqsUpTo(Hrefs, n)}
    \cup {[parses |-> FALSE, nodes |-> <<>>, hrefs |-> <<>>]}

Responses(n) ==
    {[exc |-> TRUE, status |-> 0, ctype |-> "", body |-> NoBody]}
    \cup {[exc |-> FALSE, status |-> st, ctype |-> ct, body |-> b] :
            st \in Statuses, ct \in ContentTypes, b \in Bodies(n)}

\* requests.Response.ok: raise_for_status() does not raise, i.e. not 4xx/5xx
ROk(resp) == resp.status < 400

\* "text/html" in r.headers.get("Content-Type", "")
IsHtml(resp) == resp.ctype = "text/html; charset=utf-8"

\* lines 62-67: the fetch falls through to the extraction
FetchOk(u, resp) ==
    /\ u.scheme # ""          \* requests.get raises MissingSchema otherwise
    /\ ~resp.exc
    /\ ROk(resp)
    /\ IsHtml(resp)

\* ------------------------------------------------------------------- state
VARIABLES
    pc,         \* position in scrape_public_site
    root_url,   \* argument
    max_pages,  \* argument
    domain,     \* local, line 53
    seen,       \* local, line 54
    to_visit,   \* local, line 54
    texts,      \* local, line 55
    url,        \* local, line 58
    r,          \* the response of line 63 once it passed line 64
    result,     \* the returned string
    max_chars,  \* the cap the return statement applied
    log,        \* history: one entry per requests.get, in order
    queued,     \* history: every append to to_visit, in order
    anchors,    \* history: anchors served so far
    cache,          \* the store of @st.cache_data, line 49
    session_state,  \* st.session_state
    widgets,        \* the values the sidebar's text inputs hold
    event,          \* the interaction that started the current script run
    gen_calls,      \* history: calls of generate_all_sections
    reruns          \* history: script runs of the session

vars == <<pc, root_url, max_pages, domain, seen, to_visit, texts, url, r,
          result, max_chars, log, queued, anchors, cache, session_state,
          widgets, event, gen_calls, reruns>>

\* what the crawler's own statements never touch
uivars == <<session_state, widgets, event, gen_calls, reruns>>

None == [none |-> TRUE]

\* the empty string as a URL string
EmptyUrl == Url("", "", "", "")

\* lines 31-40
SECTION_TITLES ==
    << "Company Overview", "Value Propositions", "Customer Benefits",
       "Target Audience", "Needs Assessment Questions",
       "Demo Customer Personas", "Closing Questions",
       "Lead Generation Channels & Next Steps" >>

Sections == {SECTION_TITLES[i] : i \in 1..Len(SECTION_TITLES)}

\* A section text is known by who wrote it: the n-th call of
\* generate_all_sections, or the user in a text area.
NoText == [by |-> "nobody", n |-> 0]
Generated(n) == [by |-> "gpt", n |-> n]
UserText == [by |-> "user", n |-> 0]

\* st.session_state before the first script run: a dict without keys
EmptySession ==
    [keys |-> {}, website_text |-> <<>>, num_personas |-> 0,
     playbook_sections |-> [s \in Sections |-> NoText],
     playbook_company |-> ""]

\* the text inputs of lines 156 and 161 before anything is typed
NoInput == [company_name |-> "", website_url |-> EmptyUrl]

Event(kind, u, section) == [kind |-> kind, url |-> u, section |-> section]
NoEvent == Event("none", EmptyUrl, "")

Init ==
    /\ pc = "start"
    /\ root_url \in RootUrls
    /\ max_pages \in (0..MaxPages) \cup {MAX_SITE_PAGES}
    /\ domain = None
    /\ seen = {}
    /\ to_visit = <<>>
    /\ texts = <<>>
    /\ url = None
    /\ r = None
    /\ result = None
    /\ max_chars = 0
    /\ log = <<>>
    /\ queued = <<>>
    /\ anchors = 0
    /\ cache = {}
    /\ session_state = EmptySession
    /\ widgets = NoInput
    /\ event = NoEvent
    /\ gen_calls = 0
    /\ reruns = 0

\* lines 53-55
Start ==
    /\ pc = "start"
    /\ IF UrlparseRaises(root_url)
       THEN /\ pc' = "raised"
            /\ UNCHANGED <<domain, to_visit, queued>>
       ELSE /\ pc' = "loop"
            /\ domain' = Netloc(root_url)
            /\ to_visit' = <<root_url>>
            /\ queued' = <<[url |-> root_url, by |-> 0]>>
    /\ UNCHANGED <<cache, uivars>>
    /\ UNCHANGED <<root_url, max_pages, seen, texts, url, r, result,
                   max_chars, log, anchors>>

\* while to_visit: the loop without the page budget
LoopGuardNoBudget(tv, sn, mp) == tv # <<>>

\* len(seen) <= max_pages: the budget test off by one
LoopGuardInclusive(tv, sn, mp) == tv # <<>> /\ Cardinality(sn) <= mp

\* line 57: while to_visit and len(seen) < max_pages
LoopGuard(tv, sn, mp) == tv # <<>> /\ Cardinality(sn) < mp

\* to_visit.pop(): the frontier used as a stack
PopLast(tv) == <<tv[Len(tv)], SubSeq(tv, 1, Len(tv) - 1)>>

\* line 58: url = to_visit.pop(0), as the pair <<url, rest>>
Pop(tv) == <<Head(tv), Tail(tv)>>

\* the loop head without seen.add(url)
DequeueNoMark ==
    /\ pc = "loop"
    /\ LoopGuard(to_visit, seen, max_pages)
    /\ url' = Pop(to_visit)[1]
    /\ to_visit' = Pop(to_visit)[2]
    /\ IF url' \in seen
       THEN pc' = "loop"
       ELSE pc' = "fetch"
    /\ UNCHANGED <<cache, uivars>>
    /\ UNCHANGED <<root_url, max_pages, domain, seen, texts, r, result,
                   max_chars, log, queued, anchors>>

\* lines 57-61
Dequeue ==
    /\ pc = "loop"
    /\ LoopGuard(to_visit, seen, max_pages)
    /\ url' = Pop(to_visit)[1]
    /\ to_visit' = Pop(to_visit)[2]
    /\ IF url' \in seen
       THEN pc' = "loop" /\ seen' = seen
       ELSE pc' = "fetch" /\ seen' = seen \cup {url'}
    /\ UNCHANGED <<cache, uivars>>
    /\ UNCHANGED <<root_url, max_pages, domain, texts, r, result, max_chars,
                   log, queued, anchors>>

\* the fetch without the two "continue" statements: a failed response is
\* parsed like a good one
FetchNoContinue ==
    /\ pc = "fetch"
    /\ \E resp \in Responses(MaxAnchors - anchors) :
        LET ok == FetchOk(url, resp) IN
        /\ log' = Append(log, [url |-> url, ok |-> ok,
                               body |-> IF ok THEN resp.body ELSE NoBody])
        /\ anchors' = anchors + Len(resp.body.hrefs)
        /\ pc' = "parse"
        /\ r' = resp
    /\ UNCHANGED <<cache, uivars>>
    /\ UNCHANGED <<root_url, max_pages, domain, seen, to_visit, texts, url,
                   result, max_chars, queued>>

\* the fetch without the try/except: an exception of requests.get leaves
\* the function
FetchUncaught ==
    /\ pc = "fetch"
    /\ \E resp \in Responses(MaxAnchors - anchors) :
        LET ok == FetchOk(url, resp) IN
        /\ log' = Append(log, [url |-> url, ok |-> ok,
                               body |-> IF ok THEN resp.body ELSE NoBody])
        /\ anchors' = anchors + (IF ok THEN Len(resp.body.hrefs) ELSE 0)
        /\ IF ok THEN pc' = "parse" /\ r' = resp
                 ELSE /\ pc' = IF resp.exc \/ url.scheme = ""
                               THEN "raised" ELSE "loop"
                      /\ r' = r
    /\ UNCHANGED <<cache, uivars>>
    /\ UNCHANGED <<root_url, max_pages, domain, seen, to_visit, texts, url,
                   result, max_chars, queued>>

\* lines 62-67
Fetch ==
    /\ pc = "fetch"
    /\ \E resp \in Responses(MaxAnchors - anchors) :
        LET ok == FetchOk(url, resp) IN
        /\ log' = Append(log, [url |-> url, ok |-> ok,
                               body |-> IF ok THEN resp.body ELSE NoBody])
        /\ anchors' = anchors + (IF ok THEN Len(resp.body.hrefs) ELSE 0)
        /\ IF ok THEN pc' = "parse" /\ r' = resp
                 ELSE pc' = "loop" /\ r' = r
    /\ UNCHANGED <<cache, uivars>>
    /\ UNCHANGED <<root_url, max_pages, domain, seen, to_visit, texts, url,
                   result, max_chars, queued>>

\* lines 69-73
ParsePage ==
    /\ pc = "parse"
    /\ IF r.body.parses
       THEN pc' = "links" /\ texts' = Append(texts, PageText(r.body.nodes))
       ELSE pc' = "raised" /\ texts' = texts
    /\ UNCHANGED <<cache, uivars>>
    /\ UNCHANGED <<root_url, max_pages, domain, seen, to_visit, url, r,
                   result, max_chars, log, queued, anchors>>

\* the filter without "link not in to_visit"
EligibleAllowPending(link, dom, sn, tv) ==
    /\ Netloc(link) = dom
    /\ link \notin sn

\* the filter without the host comparison
EligibleAnyHost(link, dom, sn, tv) ==
    /\ link \notin sn
    /\ \A i \in 1..Len(tv) : tv[i] # link

\* lines 77-81
Eligible(link, dom, sn, tv) ==
    /\ Netloc(link) = dom
    /\ link \notin sn
    /\ \A i \in 1..Len(tv) : tv[i] # link

\* the anchor loop leaving after the first anchor
ScanLinksFirstOnly(hrefs, base, dom, sn, tv) ==
    IF hrefs = <<>> THEN [raised |-> FALSE, to_visit |-> tv]
    ELSE IF UrljoinRaises(base, Head(hrefs))
         THEN [raised |-> TRUE, to_visit |-> tv]
         ELSE LET link == urljoin(base, Head(hrefs))
              IN  [raised |-> FALSE,
                   to_visit |-> IF Eligible(link, dom, sn, tv)
                                THEN Append(tv, link) ELSE tv]

\* lines 75-82: the for loop over the anchors, stopped by the first
\* exception of urljoin
RECURSIVE ScanLinks(_, _, _, _, _)
ScanLinks(hrefs, base, dom, sn, tv) ==
    IF hrefs = <<>> THEN [raised |-> FALSE, to_visit |-> tv]
    ELSE IF UrljoinRaises(base, Head(hrefs))
         THEN [raised |-> TRUE, to_visit |-> tv]
         ELSE LET link == urljoin(base, Head(hrefs))
              IN  ScanLinks(Tail(hrefs), base, dom, sn,
                            IF Eligible(link, dom, sn, tv)
                            THEN Append(tv, link) ELSE tv)

\* lines 75-82
ExtractLinks ==
    /\ pc = "links"
    /\ LET sc == ScanLinks(r.body.hrefs, url, domain, seen, to_visit)
           new == SubSeq(sc.to_visit, Len(to_visit) + 1, Len(sc.to_visit))
       IN  /\ to_visit' = sc.to_visit
           /\ queued' = queued \o
                  [i \in 1..Len(new) |-> [url |-> new[i], by |-> Len(log)]]
           /\ pc' = IF sc.raised THEN "raised" ELSE "loop"
    /\ UNCHANGED <<cache, uivars>>
    /\ UNCHANGED <<root_url, max_pages, domain, seen, texts, url, r, result,
                   max_chars, log, anchors>>

\* " \n".join(texts)[-MAX_SITE_CHARS:]: the cap keeps the end of the text
CorpusTail(ts, cap) ==
    LET j == Join(Separator, ts)
    IN  SubSeq(j, (IF Len(j) < cap THEN 0 ELSE Len(j) - cap) + 1, Len(j))

\* line 84: " \n".join(texts)[:MAX_SITE_CHARS]
Corpus(ts, cap) == Slice(Join(Separator, ts), cap)

\* line 49, @st.cache_data: the store maps the arguments of a call that
\* returned to the value it returned
CacheStore(c, key, value) == c \cup {[key |-> key, value |-> value]}

\* a lookup that finds nothing: the function without its cache
CacheLookupMiss(c, key) == {}

\* line 49: the values stored under the arguments, none on a miss
CacheLookup(c, key) == {e.value : e \in {x \in c : x.key = key}}

\* line 84, and the store of the decorator on return.  MAX_SITE_CHARS is
\* read nowhere else, so the cap is drawn at its first use: the program's
\* value, or one the model's texts can exceed.
Return ==
    /\ pc = "loop"
    /\ ~LoopGuard(to_visit, seen, max_pages)
    /\ \E cap \in (IF max_chars = 0 THEN {MaxChars, MAX_SITE_CHARS}
                                    ELSE {max_chars}) :
        /\ max_chars' = cap
        /\ result' = Corpus(texts, cap)
        /\ cache' = CacheStore(cache, <<root_url, max_pages>>, result')
    /\ pc' = "done"
    /\ UNCHANGED uivars
    /\ UNCHANGED <<root_url, max_pages, domain, seen, to_visit, texts, url,
                   r, log, queued, anchors>>

\* ------------------------------------------------------ the Streamlit page
\* One script run of render_playbook_builder (lines 215-245) is started by
\* one interaction: the page load, typing into a field, or a button.

\* the interactions the page offers as it was last rendered
Events(ss, w, n) ==
    IF n = 0 THEN {Event("load", EmptyUrl, "")}
    ELSE {Event("url", u, "") : u \in RootUrls \ {w.website_url}}
         \cup (IF w.company_name = ""
               THEN {Event("company", EmptyUrl, "")} ELSE {})
         \* line 169: the button exists only beside a non-empty URL
         \cup (IF w.website_url # EmptyUrl
               THEN {Event("fetch", EmptyUrl, "")} ELSE {})
         \* line 179: disabled=num_personas >= 5
         \cup (IF ss.num_personas < 5
               THEN {Event("add", EmptyUrl, "")} ELSE {})
         \cup {Event("generate", EmptyUrl, "")}
         \* lines 225-236: text areas and export button of the preview
         \cup (IF "playbook_sections" \in ss.keys
               THEN {Event("edit", EmptyUrl, s) : s \in Sections}
                    \cup {Event("export", EmptyUrl, "")}
               ELSE {})

\* lines 156, 161: the text inputs after the interaction
Typed(w, e) ==
    CASE e.kind = "url"     -> [w EXCEPT !.website_url = e.url]
      [] e.kind = "company" -> [w EXCEPT !.company_name = "Acme"]
      [] OTHER              -> w

\* regeneration whenever the preview is missing, not only on the click
GenerateNowAuto(clicked, ss) ==
    clicked \/ "playbook_sections" \notin ss.keys

\* line 221: if generate_clicked
GenerateNow(clicked, ss) == clicked

\* lines 173-245: the script from the divider on, as the session state it
\* leaves; g numbers the call of generate_all_sections if one is made
RenderRest(ss, w, e, g) ==
    LET ss1 == IF "num_personas" \notin ss.keys
               THEN [ss EXCEPT !.keys = @ \cup {"num_personas"},
                               !.num_personas = 1]
               ELSE ss
        ss2 == IF e.kind = "add"
               THEN [ss1 EXCEPT !.num_personas = @ + 1] ELSE ss1
        ss3 == IF GenerateNow(e.kind = "generate", ss2)
               THEN [ss2 EXCEPT
                       !.keys = @ \cup {"playbook_sections",
                                        "playbook_company"},
                       !.playbook_sections = [s \in Sections |-> Generated(g)],
                       !.playbook_company =
                           IF w.company_name # "" THEN w.company_name
                                                  ELSE "Company"]
               ELSE ss2
    IN  IF "playbook_sections" \in ss3.keys
        THEN [ss3 EXCEPT !.playbook_sections =
                 [s \in Sections |->
                     IF e.kind = "edit" /\ e.section = s
                     THEN UserText ELSE ss3.playbook_sections[s]]]
        ELSE ss3

\* lines 215-245: a script run that does not press "Fetch website copy"
RunScript ==
    /\ pc = "idle"
    /\ reruns < MaxReruns
    /\ \E e \in Events(session_state, widgets, reruns) :
        /\ e.kind # "fetch"
        /\ event' = e
        /\ widgets' = Typed(widgets, e)
        /\ session_state' =
               RenderRest(session_state, widgets', e, gen_calls + 1)
        /\ gen_calls' = IF GenerateNow(e.kind = "generate", session_state)
                        THEN gen_calls + 1 ELSE gen_calls
    /\ reruns' = reruns + 1
    /\ UNCHANGED <<pc, root_url, max_pages, domain, seen, to_visit, texts,
                   url, r, result, max_chars, log, queued, anchors, cache>>

\* lines 169-171: the script run of a press on "Fetch website copy", up to
\* the call scrape_public_site(website_url): a stored value is returned
\* without running the function, otherwise the function starts afresh
PressFetch ==
    /\ pc = "idle"
    /\ reruns < MaxReruns
    /\ Event("fetch", EmptyUrl, "") \in Events(session_state, widgets, reruns)
    /\ event' = Event("fetch", EmptyUrl, "")
    /\ reruns' = reruns + 1
    /\ root_url' = widgets.website_url
    /\ max_pages' = MAX_SITE_PAGES
    /\ LET hit == CacheLookup(cache, <<root_url', max_pages'>>)
       IN  IF hit # {}
           THEN pc' = "done" /\ result' \in hit
           ELSE pc' = "start" /\ result' = None
    /\ domain' = None
    /\ seen' = {}
    /\ to_visit' = <<>>
    /\ texts' = <<>>
    /\ url' = None
    /\ r' = None
    /\ log' = <<>>
    /\ queued' = <<>>
    /\ UNCHANGED <<max_chars, anchors, cache, session_state, widgets,
                   gen_calls>>

\* lines 171-245: scrape_public_site returned; the rest of the script run
FinishFetch ==
    /\ pc = "done"
    /\ event.kind = "fetch"
    /\ pc' = "idle"
    /\ session_state' =
           RenderRest([session_state EXCEPT
                          !.keys = @ \cup {"website_text"},
                          !.website_text = result],
                      widgets, event, gen_calls + 1)
    /\ gen_calls' = IF GenerateNow(FALSE, session_state)
                    THEN gen_calls + 1 ELSE gen_calls
    /\ UNCHANGED <<root_url, max_pages, domain, seen, to_visit, texts, url,
                   r, result, max_chars, log, queued, anchors, cache,
                   widgets, event, reruns>>

\* line 171: scrape_public_site raised; the script run ends there
AbortScript ==
    /\ pc = "raised"
    /\ event.kind = "fetch"
    /\ pc' = "idle"
    /\ UNCHANGED <<root_url, max_pages, domain, seen, to_visit, texts, url,
                   r, result, max_chars, log, queued, anchors, cache,
                   uivars>>

Next ==
    \/ Start
    \/ Dequeue
    \/ Fetch
    \/ ParsePage
    \/ ExtractLinks
    \/ Return

\* one direct call of scrape_public_site
Spec == Init /\ [][Next]_vars

\* A browser session on the page.  Every crawl is the call of line 171,
\* with the default max_pages, and the site it meets is a single page: the
\* anchors are used up from the start.
InitUi ==
    /\ pc = "idle"
    /\ root_url = None
    /\ max_pages = MAX_SITE_PAGES
    /\ domain = None
    /\ seen = {}
    /\ to_visit = <<>>
    /\ texts = <<>>
    /\ url = None
    /\ r = None
    /\ result = None
    /\ max_chars = 0
    /\ log = <<>>
    /\ queued = <<>>
    /\ anchors = MaxAnchors
    /\ cache = {}
    /\ session_state = EmptySession
    /\ widgets = NoInput
    /\ event = NoEvent
    /\ gen_calls = 0
    /\ reruns = 0

NextUi ==
    \/ RunScript
    \/ PressFetch
    \/ FinishFetch
    \/ AbortScript
    \/ Start
    \/ Dequeue
    \/ Fetch
    \/ ParsePage
    \/ ExtractLinks
    \/ Return

UiSpec == InitUi /\ [][NextUi]_vars

TypeOK ==
    /\ pc \in {"idle", "start", "loop", "fetch", "parse", "links", "done",
              "raised"}
    /\ max_pages \in Nat
    /\ anchors \in 0..MaxAnchors

\* ------------------------------------------------- notions the claims use
\* the URLs requests.get was called on, in order
FetchedUrls == [i \in 1..Len(log) |-> log[i].url]

\* the URLs appended to the frontier, in order
QueuedUrls == [i \in 1..Len(queued) |-> queued[i].url]

Range(f) == {f[i] : i \in DOMAIN f}

NoDuplicates(f) == \A i, j \in DOMAIN f : f[i] = f[j] => i = j

\* the log entries of the fetches the code took for good
OkEntries == SelectSeq(log, LAMBDA e : e.ok)

\* the index in the log of the page whose anchor put u into the frontier
\* (0 for the root)
DiscoveredBy(u) ==
    queued[CHOOSE j \in 1..Len(queued) :
               /\ queued[j].url = u
               /\ \A k \in 1..(j - 1) : queued[k].url # u].by

\* the same-host targets of the anchors of the logged page e
ScopedLinks(e) ==
    LET joinable == {h \in Range(e.body.hrefs) : ~UrljoinRaises(e.url, h)}
    IN  {u \in {urljoin(e.url, h) : h \in joinable} :
            Netloc(u) = Netloc(root_url)}

\* the URLs reachable from S through same-host anchors of fetched pages
RECURSIVE Reachable(_)
Reachable(S) ==
    LET T == S \cup UNION {ScopedLinks(e) : e \in {x \in Range(log) : x.url \in S}}
    IN  IF T = S THEN S ELSE Reachable(T)

IsPrefix(s, t) == Len(s) <= Len(t) /\ s = SubSeq(t, 1, Len(s))

\* ------------------------------------------------------------------ claims

\* C1: every URL a fetch is attempted on has the host of the root URL, and
\* a link with another host is never put into the frontier.
C1_ScopeContainment ==
    /\ \A i \in 1..Len(log) : Netloc(log[i].url) = Netloc(root_url)
    /\ \A j \in 1..Len(queued) : Netloc(queued[j].url) = Netloc(root_url)
    /\ \A k \in 1..Len(to_visit) : Netloc(to_visit[k]) = Netloc(root_url)

\* a finished crawl that fetched a page carrying an anchor to another host
C1_Witness ==
    /\ pc = "done"
    /\ \E i \in 1..Len(log) : HrefExternal \in Range(log[i].body.hrefs)
    /\ Len(log) >= 2

\* C2: the visited set never holds more than max_pages URLs, and no more
\* than max_pages fetches are attempted.
C2_PageBudget ==
    /\ Cardinality(seen) <= max_pages
    /\ Len(log) <= max_pages

\* the budget is exhausted by a page that left several links pending
C2_Witness ==
    /\ pc = "done"
    /\ max_pages >= 1
    /\ Cardinality(seen) = max_pages
    /\ Len(to_visit) >= 2

\* C3: the returned string is no longer than the character cap.
C3_CharBudget == pc = "done" => Len(result) <= max_chars

\* the cap fell strictly inside the text of one of the pages
C3_Witness ==
    /\ pc = "done"
    /\ Len(result) = max_chars
    /\ \E k \in 1..Len(texts) :
         LET before == Join(Separator, SubSeq(texts, 1, k - 1))
             from == Len(before) + (IF k > 1 THEN Len(Separator) ELSE 0)
         IN  from < max_chars /\ max_chars < from + Len(texts[k])

\* C4: no URL is fetched twice, and every fetched URL entered the visited
\* set exactly once.
C4_NoDuplicateFetch ==
    /\ NoDuplicates(FetchedUrls)
    /\ Cardinality(seen) = Len(log) + (IF pc = "fetch" THEN 1 ELSE 0)
    /\ Range(FetchedUrls) \subseteq seen

\* two fetched pages link to the same same-host URL, and one page links to
\* itself
C4_Witness ==
    /\ pc = "done"
    /\ \E i, j \in 1..Len(log) :
         /\ i < j
         /\ ScopedLinks(log[i]) \cap ScopedLinks(log[j]) # {}
    /\ \E i \in 1..Len(log) : log[i].url \in ScopedLinks(log[i])

\* C5: a failed fetch is made on a URL already marked visited, changes
\* neither the visited set, the corpus nor the frontier, and hands control
\* back to the loop; every attempt, failed or not, counts once against the
\* budget, no URL is attempted twice, and text and links come from good
\* fetches only.
C5_FailedFetchSkipped ==
    /\ [][(pc = "fetch" /\ Len(log') = Len(log) + 1
                        /\ ~log'[Len(log')].ok)
            => /\ url \in seen
               /\ pc' = "loop"
               /\ seen' = seen
               /\ texts' = texts
               /\ to_visit' = to_visit]_vars
    /\ [](/\ Cardinality(seen) = Len(log) + (IF pc = "fetch" THEN 1 ELSE 0)
          /\ NoDuplicates(FetchedUrls)
          /\ Len(texts) <= Len(OkEntries)
          /\ \A j \in 1..Len(queued) :
                queued[j].by = 0 \/ log[queued[j].by].ok)

\* a fetch failed and the crawl went on to fetch the next frontier entry
C5_Witness ==
    \E i \in 1..Len(log) : ~log[i].ok /\ i < Len(log) /\ log[i + 1].ok

\* C6: when the fetch of the root fails the crawl does not raise, and it
\* ends with the root as the only visited URL and the empty string.
C6_RootFailure ==
    (Len(log) >= 1 /\ ~log[1].ok)
        => /\ pc \in {"loop", "done"}
           /\ seen = {root_url}
           /\ Len(log) = 1
           /\ pc = "done" => result = <<>>

\* the crawl returned after the one failed fetch of the root
C6_Witness ==
    /\ pc = "done"
    /\ Len(log) = 1
    /\ ~log[1].ok
    /\ result = <<>>

\* C7: the URLs are fetched in the order of their first append to the
\* frontier: the fetched sequence is an initial part of the appended one.
C7_FifoOrder ==
    /\ IsPrefix(FetchedUrls, QueuedUrls)
    /\ NoDuplicates(QueuedUrls)

\* both links of the root were fetched before the link found on the second
\* page
C7_Witness ==
    /\ Len(log) = 4
    /\ queued[2].by = 1
    /\ queued[3].by = 1
    /\ queued[4].by = 2

\* C8: (docstring: DFS crawl) when a URL is fetched, no link found on a
\* page fetched later than the page that found this URL is still pending.
C8_DepthFirst ==
    pc = "fetch" =>
        \A k \in 1..Len(to_visit) : DiscoveredBy(to_visit[k]) <= DiscoveredBy(url)

\* C9: the returned string is the first max_chars characters of the texts
\* of the good fetches joined by the separator in fetch order, of length
\* exactly max_chars when the joined text is that long.
C9_OutputContent ==
    pc = "done" =>
        LET ok == OkEntries
            joined == Join(Separator,
                           [i \in 1..Len(ok) |-> PageText(ok[i].body.nodes)])
        IN  /\ result = Slice(joined, max_chars)
            /\ IsPrefix(result, joined)
            /\ Len(joined) >= max_chars => Len(result) = max_chars

\* two pages with different texts were joined and the cap cut the result
C9_Witness ==
    /\ pc = "done"
    /\ Len(texts) >= 2
    /\ texts[1] # texts[2]
    /\ Len(Join(Separator, texts)) > max_chars
    /\ Len(result) = max_chars

\* C10: when every fetch was good and the loop ended below the budget, the
\* visited set is the set of same-host URLs reachable from the root
\* through the anchors of the fetched pages.
C10_Completeness ==
    (/\ pc = "done"
     /\ Len(log) >= 1
     /\ \A i \in 1..Len(log) : log[i].ok
     /\ Cardinality(seen) < max_pages)
        => seen = Reachable({root_url})

\* the spec's scenario: the root links to /about and to another host,
\* max_pages is 10, and exactly the root and /about are visited
C10_Witness ==
    /\ pc = "done"
    /\ max_pages = MAX_SITE_PAGES
    /\ \A i \in 1..Len(log) : log[i].ok
    /\ Range(log[1].body.hrefs) = {HrefAbout, HrefExternal}
    /\ seen = {RootUrl, Url("https", "example.com", "/about", "")}

\* Spec with the scheduling of a running Python call: a step that can be
\* taken is taken.
FairSpec == Spec /\ WF_vars(Next)

\* C11: once the visited set holds max_pages URLs the loop is left whatever
\* the frontier holds, nothing is fetched afterwards, the pending URLs were
\* never fetched, and with max_pages = 1 the root is the only fetch and
\* the output is the capped text of the root page.
C11_BudgetExit ==
    /\ [][(pc = "loop" /\ Cardinality(seen) >= max_pages)
             => (pc' = "done" /\ log' = log /\ to_visit' = to_visit)]_vars
    /\ [][pc # "done"]_vars
    /\ [](pc = "done" =>
            /\ Range(to_visit) \cap Range(FetchedUrls) = {}
            /\ Len(texts) <= Cardinality(seen)
            /\ max_pages = 1 =>
                 /\ FetchedUrls = <<root_url>>
                 /\ result = Slice(IF log[1].ok
                                   THEN PageText(log[1].body.nodes)
                                   ELSE <<>>, max_chars))

\* max_pages = 1, the root page was good and left two links pending
C11_Witness ==
    /\ pc = "done"
    /\ max_pages = 1
    /\ log[1].ok
    /\ Len(to_visit) >= 2
    /\ result # <<>>

\* C12: every crawl whose root URL urlparse accepts eventually leaves the
\* loop and returns a string.
C12_Termination == ~UrlparseRaises(root_url) => <>(pc = "done")

\* C13: a fetched body that the parser rejects does not end the crawl with
\* an exception.
C13_ParseErrorSkipped ==
    \A i \in 1..Len(log) :
        (log[i].ok /\ ~log[i].body.parses) => pc # "raised"

\* C14: a malformed href on a fetched page does not end the crawl with an
\* exception.
C14_MalformedLinkDropped ==
    \A i \in 1..Len(log) :
        (log[i].ok /\ log[i].body.parses
                   /\ \E h \in Range(log[i].body.hrefs) :
                          UrljoinRaises(log[i].url, h))
            => pc # "raised"

\* a root URL no request can be built for: urlparse rejects it, or it has
\* no scheme (requests raises MissingSchema)
InvalidRoot(u) == UrlparseRaises(u) \/ u.scheme = ""

\* C15: with an invalid root URL the crawl is rejected before the root is
\* marked visited and before any requests.get, and never returns a string.
C15_InvalidRootRejected ==
    InvalidRoot(root_url) =>
        /\ seen = {}
        /\ log = <<>>
        /\ pc # "done"

\* C18: only a response with a 2xx status and an HTML content type reaches
\* the extraction of text and links.
C18_Only2xxHtml ==
    pc \in {"parse", "links"} =>
        /\ r.status \in 200..299
        /\ r.ctype = "text/html; charset=utf-8"

\* two URL strings of one page: they differ in the fragment at most
SamePage(u, v) ==
    u.scheme = v.scheme /\ u.netloc = v.netloc /\ u.path = v.path

\* C19: an anchor never puts the page it stands on into the frontier under
\* another URL string, and no page is fetched under two URL strings.
C19_FragmentOnlySelf ==
    /\ \A j \in 1..Len(queued) :
          queued[j].by > 0 => ~SamePage(queued[j].url, log[queued[j].by].url)
    /\ \A i, j \in 1..Len(log) :
          SamePage(log[i].url, log[j].url) => i = j

\* C20: at the top of the loop the frontier has no URL twice and none that
\* is visited, so a dequeue always goes on to a fetch (the "url in seen"
\* branch is not taken).
C20_FrontierHygiene ==
    /\ [](pc = "loop" =>
            /\ NoDuplicates(to_visit)
            /\ Range(to_visit) \cap seen = {})
    /\ [][(pc = "loop" /\ pc' # "done")
             => (pc' = "fetch" /\ url' \notin seen /\ url' \in seen')]_vars

\* a finished crawl on which a good page carried only joinable same-host
\* anchors and fewer of them were appended than it carried
C20_Witness ==
    /\ pc = "done"
    /\ \E i \in 1..Len(log) :
         /\ log[i].ok
         /\ log[i].body.hrefs # <<>>
         /\ Range(log[i].body.hrefs) \subseteq {HrefAbout, HrefTop}
         /\ Cardinality({j \in 1..Len(queued) : queued[j].by = i})
               < Len(log[i].body.hrefs)

\* the arguments some earlier call returned for
CacheKeys == {e.key : e \in cache}

\* C16 as stated: every call of scrape_public_site that returns made its
\* own fetches, a repeated root URL included.
C16_EveryCallFetches == pc = "done" => Len(log) >= 1

\* C16 as amended: the body starts from a fresh visited set, frontier and
\* corpus each time it runs and then makes its own fetches, but the body
\* runs only for arguments no earlier call returned for; for stored
\* arguments the call returns the stored string and fetches nothing, and
\* every returned value is in the store afterwards.
C16_FreshBodyCachedCall ==
    /\ [](pc = "start" =>
            /\ seen = {} /\ to_visit = <<>> /\ texts = <<>>
            /\ log = <<>> /\ queued = <<>>
            /\ <<root_url, max_pages>> \notin CacheKeys)
    /\ [](pc = "done" =>
            /\ [key |-> <<root_url, max_pages>>, value |-> result] \in cache
            /\ log = <<>> => seen = {})
    /\ [][(pc = "idle" /\ pc' # "idle") =>
             IF <<root_url', max_pages'>> \in CacheKeys
             THEN pc' = "done" /\ log' = <<>> /\ cache' = cache
             ELSE pc' = "start"]_vars
    /\ [][(pc = "loop" /\ pc' = "done") => Len(log) >= 1]_vars

\* the second press on "Fetch website copy" for a root URL already crawled:
\* the call has returned without a single fetch
C16_Witness ==
    /\ pc = "done"
    /\ event.kind = "fetch"
    /\ root_url = RootUrl
    /\ log = <<>>
    /\ result # <<>>

\* C17: generate_all_sections is called, and the stored sections are
\* replaced, only in a script run started by the Generate button; in any
\* other step a stored section changes only to what the user typed into
\* its own text area, and the preview never appears.
C17_ClickGated ==
    [][(\/ gen_calls' # gen_calls
        \/ session_state'.playbook_sections # session_state.playbook_sections
        \/ ("playbook_sections" \in session_state'.keys)
              # ("playbook_sections" \in session_state.keys))
         => \/ /\ event'.kind = "generate"
               /\ reruns' = reruns + 1
               /\ gen_calls' = gen_calls + 1
            \/ /\ event'.kind = "edit"
               /\ reruns' = reruns + 1
               /\ gen_calls' = gen_calls
               /\ session_state'.keys = session_state.keys
               /\ session_state'.playbook_sections =
                     [session_state.playbook_sections
                         EXCEPT ![event'.section] = UserText]]_vars

\* after one generation and one edit, a script run with a fetched website
\* text ended with the sections as they were left
C17_Witness ==
    /\ pc = "idle"
    /\ event.kind = "fetch"
    /\ "website_text" \in session_state.keys
    /\ gen_calls = 1
    /\ \E s \in Sections :
         /\ session_state.playbook_sections[s] = UserText
         /\ \A t \in Sections \ {s} :
               session_state.playbook_sections[t] = Generated(1)

====
